---- MODULE Spec2Model ----
(***************************************************************************)
(* Model of the scaled-mm epilogues of lightllm::c3x                       *)
(* (include/cutlass_extensions/epilogue/scaled_mm_epilogues_c3x.hpp).      *)
(*                                                                         *)
(* The four epilogues are expression trees (Sm90EVT) over load descriptors *)
(* and compute nodes.  prepare_args builds the argument block of a tree    *)
(* from the caller's tensors; the GEMM then visits the tree once per       *)
(* output coordinate (m, n) of the tile.                                   *)
(*                                                                         *)
(* Numbers are integers.  A numeric conversion rounds to nearest (ties to  *)
(* even) at the significand width of the target type, so a narrowing       *)
(* conversion is not the identity.                                         *)
(***************************************************************************)
EXTENDS Integers, Sequences, FiniteSets, TLC

\* ------------------------------------------------------------------ bounds
TileM == 2
TileN == 2

Rows == 0 .. (TileM - 1)
Cols == 0 .. (TileN - 1)

\* values the caller's tensors hold: <<common value, value of one entry>>
ScaleAVals == <<2, 3>>
ScaleBVals == <<10, 100>>
BiasVals   == <<1, 0>>
LsVals     == <<1, 2>>
GarbageVals == {7}

Elems(vals) == {vals[i] : i \in DOMAIN vals}

\* the vectors of k elements that are constant or differ in one entry
Vectors(k, vals) ==
  { [i \in 0 .. (k - 1) |-> IF i = j THEN vals[2] ELSE vals[1]] :
      j \in (0 - 1) .. (k - 1) }

\* element counts the caller supplies: empty, one element, one per row/column
ScaleANumels == {0, 1, TileM}
ScaleBNumels == {0, 1, TileN}
ChannelNumels == {0, 1, TileN}

\* accumulator tiles produced by the GEMM mainloop
IotaTile   == [m \in Rows |-> [n \in Cols |-> m * TileN + n + 1]]
SparseTile == [m \in Rows |-> [n \in Cols |-> IF m = 0 THEN 0 ELSE 0 - (n + 1)]]
WideTile   == [m \in Rows |-> [n \in Cols |-> 43 + 2 * (m * TileN + n)]]
AccTiles   == {IotaTile, SparseTile, WideTile}

\* instantiations of the ElementD template parameter
ElementDTypes == {"float", "half", "bfloat16"}

\* ------------------------------------------------------------------ memory
NULL == "nullptr"
Addrs == {"pa", "pb", "pbias", "pls"}

NoTensor  == [data_ptr |-> NULL, numel |-> 0]
NoStorage == << >>
NoArgs    == << >>
NoTile    == << >>

\* a torch::Tensor handle together with the storage behind its data_ptr()
Operands(addr, numels, vals) ==
  UNION { { [tensor |-> [data_ptr |-> p, numel |-> k], storage |-> s] :
              p \in (IF k = 0 THEN {NULL} ELSE {addr}),
              s \in Vectors(k, vals) } : k \in numels }

\* ------------------------------------------------------- numeric conversion
SigBits(t) ==
  CASE t = "float"    -> 24
    [] t = "half"     -> 11
    [] t = "bfloat16" -> 8

RECURSIVE Quantum(_, _, _)
Quantum(mag, p, q) == IF mag < (2 ^ p) * q THEN q ELSE Quantum(mag, p, 2 * q)

\* cutlass::FloatRoundStyle::round_to_nearest at a p-bit significand
round_to_nearest(x, p) ==
  LET mag == IF x < 0 THEN 0 - x ELSE x
      q   == Quantum(mag, p, 1)
      lo  == (mag \div q) * q
      rem == mag - lo
      r   == IF 2 * rem < q THEN lo
             ELSE IF 2 * rem > q THEN lo + q
             ELSE IF (lo \div q) % 2 = 0 THEN lo ELSE lo + q
  IN  IF x < 0 THEN 0 - r ELSE r

VARIABLES
  variant,    \* which epilogue struct the kernel was instantiated with
  ElementD,   \* the output element type of that instantiation
  Acc,        \* accumulator tile of the mainloop
  a_scales, b_scales, bias, ls,   \* the caller's tensors
  mem,        \* device memory behind the tensors
  args,       \* EVTCompute::Arguments built by prepare_args
  D,          \* output tile
  pc,
  call,       \* one instantiation of args_from_tensor<Descriptor, T>
  result      \* what that instantiation returns

vars == <<variant, ElementD, Acc, a_scales, b_scales, bias, ls, mem, args, D,
          pc, call, result>>

\* a template type argument: "ElementD" stands for the struct's parameter
Resolve(t) == IF t = "ElementD" THEN ElementD ELSE t

NumericConverter(t, x) == round_to_nearest(x, SigBits(Resolve(t)))

\* ------------------------------------------------------- load descriptors
Accum == [kind |-> "Sm90AccFetch"]

\* ScaleA read with the row-vector stride
ColOrScalarLoad_RowStride(T) ==
  [kind |-> "Sm90ColOrScalarBroadcast", Element |-> T,
   Stride |-> <<0, 1, 0>>, EnableNullptr |-> FALSE]

ColOrScalarLoad(T) ==
  [kind |-> "Sm90ColOrScalarBroadcast", Element |-> T,
   Stride |-> <<1, 0, 0>>, EnableNullptr |-> FALSE]

\* ScaleB read with the column-vector stride
RowOrScalarLoad_ColStride(T) ==
  [kind |-> "Sm90RowOrScalarBroadcast", Element |-> T,
   Stride |-> <<1, 0, 0>>, EnableNullptr |-> FALSE]

RowOrScalarLoad(T) ==
  [kind |-> "Sm90RowOrScalarBroadcast", Element |-> T,
   Stride |-> <<0, 1, 0>>, EnableNullptr |-> FALSE]

ColLoad(T, EnableNullPtr) ==
  [kind |-> "Sm90ColBroadcast", Element |-> T,
   Stride |-> <<1, 0, 0>>, EnableNullptr |-> EnableNullPtr]

\* bias / multiplier read with the column-vector stride
RowLoad_ColStride(T, EnableNullPtr) ==
  [kind |-> "Sm90RowBroadcast", Element |-> T,
   Stride |-> <<1, 0, 0>>, EnableNullptr |-> EnableNullPtr]

RowLoad(T, EnableNullPtr) ==
  [kind |-> "Sm90RowBroadcast", Element |-> T,
   Stride |-> <<0, 1, 0>>, EnableNullptr |-> EnableNullPtr]

\* a call that does not compile (static_assert, or no conversion T* -> Element*)
IllFormed == [ill_formed |-> TRUE]

Absent == [has_value |-> FALSE, data_ptr |-> NULL, numel |-> 0]
Some(t) == [has_value |-> TRUE, data_ptr |-> t.data_ptr, numel |-> t.numel]

\* the flag computed as numel() > 1
args_from_tensor_GreaterThanOne(Descriptor, T, tensor) ==
  LET data_ptr == tensor.data_ptr
  IN  IF Descriptor = ColOrScalarLoad(T) \/ Descriptor = RowOrScalarLoad(T)
      THEN [ptr |-> data_ptr, broadcast |-> (tensor.numel > 1)]
      ELSE IF Descriptor = ColLoad(T, TRUE) \/ Descriptor = RowLoad(T, TRUE)
           THEN IllFormed
           ELSE IF Descriptor.Element # T
                THEN IllFormed
                ELSE [ptr |-> data_ptr]

\* args_from_tensor<Descriptor, T>(torch::Tensor const&)
args_from_tensor(Descriptor, T, tensor) ==
  LET data_ptr == tensor.data_ptr
  IN  IF Descriptor = ColOrScalarLoad(T) \/ Descriptor = RowOrScalarLoad(T)
      THEN [ptr |-> data_ptr, broadcast |-> (tensor.numel # 1)]
      ELSE IF Descriptor = ColLoad(T, TRUE) \/ Descriptor = RowLoad(T, TRUE)
           THEN IllFormed
           ELSE IF Descriptor.Element # T
                THEN IllFormed
                ELSE [ptr |-> data_ptr]

\* the optional overload without its static_assert
args_from_optional_tensor_Unchecked(Descriptor, T, tensor) ==
  LET data_ptr == IF tensor.has_value THEN tensor.data_ptr ELSE NULL
  IN  IF Descriptor.Element # T THEN IllFormed ELSE [ptr |-> data_ptr]

\* args_from_tensor<Descriptor, T>(c10::optional<torch::Tensor> const&)
args_from_optional_tensor(Descriptor, T, tensor) ==
  LET data_ptr == IF tensor.has_value THEN tensor.data_ptr ELSE NULL
  IN  IF Descriptor = ColLoad(T, TRUE) \/ Descriptor = RowLoad(T, TRUE)
      THEN [ptr |-> data_ptr]
      ELSE IllFormed

\* ------------------------------------------------------------ expression trees
Sm90Compute(ComputeFn, ElementOutput, ElementCompute) ==
  [kind |-> "Sm90Compute", ComputeFn |-> ComputeFn,
   ElementOutput |-> ElementOutput, ElementCompute |-> ElementCompute]

Sm90EVT(NodeOp, ChildOps) ==
  [kind |-> "Sm90EVT", NodeOp |-> NodeOp, ChildOps |-> ChildOps]

\* Arguments of nodes that take none (Sm90AccFetch, Sm90Compute)
EmptyArguments == << >>

\* Sm90EVT::Arguments{inits...}: one slot per child, then the node op's;
\* slots without an initializer are value-initialized
Arguments(Op, inits) ==
  [i \in 1 .. (Len(Op.ChildOps) + 1) |->
     IF i <= Len(inits) THEN inits[i] ELSE EmptyArguments]

\* ---- ScaledEpilogue
ScaledEpilogue_ScaleA == ColOrScalarLoad("float")
ScaledEpilogue_ScaleB == RowOrScalarLoad("float")
ScaledEpilogue_Compute0 == Sm90Compute("multiplies", "float", "float")
ScaledEpilogue_EVTCompute0 ==
  Sm90EVT(ScaledEpilogue_Compute0, <<ScaledEpilogue_ScaleB, Accum>>)
ScaledEpilogue_Compute1 == Sm90Compute("multiplies", "ElementD", "float")
ScaledEpilogue_EVTCompute ==
  Sm90EVT(ScaledEpilogue_Compute1,
          <<ScaledEpilogue_ScaleA, ScaledEpilogue_EVTCompute0>>)

ScaledEpilogue_prepare_args(a_t, b_t) ==
  LET a_args == args_from_tensor(ScaledEpilogue_ScaleA, "float", a_t)
      b_args == args_from_tensor(ScaledEpilogue_ScaleB, "float", b_t)
      evt0_args == Arguments(ScaledEpilogue_EVTCompute0, <<b_args>>)
  IN  Arguments(ScaledEpilogue_EVTCompute, <<a_args, evt0_args>>)

\* ---- ScaledEpilogueBias
ScaledEpilogueBias_ScaleA == ColOrScalarLoad("float")
ScaledEpilogueBias_ScaleB == RowOrScalarLoad("float")
ScaledEpilogueBias_Bias == RowLoad("ElementD", FALSE)
ScaledEpilogueBias_Compute0 == Sm90Compute("multiplies", "float", "float")
ScaledEpilogueBias_EVTCompute0 ==
  Sm90EVT(ScaledEpilogueBias_Compute0, <<ScaledEpilogueBias_ScaleB, Accum>>)
ScaledEpilogueBias_Compute1 == Sm90Compute("multiply_add", "ElementD", "float")
ScaledEpilogueBias_EVTCompute ==
  Sm90EVT(ScaledEpilogueBias_Compute1,
          <<ScaledEpilogueBias_ScaleA, ScaledEpilogueBias_EVTCompute0,
            ScaledEpilogueBias_Bias>>)

ScaledEpilogueBias_prepare_args(a_t, b_t, bias_t) ==
  LET a_args == args_from_tensor(ScaledEpilogueBias_ScaleA, "float", a_t)
      b_args == args_from_tensor(ScaledEpilogueBias_ScaleB, "float", b_t)
      bias_args == args_from_tensor(ScaledEpilogueBias_Bias, "ElementD", bias_t)
      evt0_args == Arguments(ScaledEpilogueBias_EVTCompute0, <<b_args>>)
  IN  Arguments(ScaledEpilogueBias_EVTCompute, <<a_args, evt0_args, bias_args>>)

\* ---- ScaledEpilogueLs
ScaledEpilogueLs_ScaleA == ColOrScalarLoad("float")
ScaledEpilogueLs_ScaleB == RowOrScalarLoad("float")
ScaledEpilogueLs_Ls == RowLoad("ElementD", FALSE)
ScaledEpilogueLs_Compute0 == Sm90Compute("multiplies", "float", "float")
ScaledEpilogueLs_EVTCompute0 ==
  Sm90EVT(ScaledEpilogueLs_Compute0, <<ScaledEpilogueLs_ScaleB, Accum>>)
\* the A-scale product narrowed to the output type
ScaledEpilogueLs_Compute1_Narrowed ==
  Sm90Compute("multiplies", "ElementD", "float")
ScaledEpilogueLs_Compute1 == Sm90Compute("multiplies", "float", "float")
ScaledEpilogueLs_EVTCompute1 ==
  Sm90EVT(ScaledEpilogueLs_Compute1,
          <<ScaledEpilogueLs_ScaleA, ScaledEpilogueLs_EVTCompute0>>)
ScaledEpilogueLs_Compute2 == Sm90Compute("multiplies", "ElementD", "float")
ScaledEpilogueLs_EVTCompute ==
  Sm90EVT(ScaledEpilogueLs_Compute2,
          <<ScaledEpilogueLs_Ls, ScaledEpilogueLs_EVTCompute1>>)

\* the two scale tensors exchanged
ScaledEpilogueLs_prepare_args_ScalesExchanged(a_t, b_t, ls_t) ==
  LET a_args == args_from_tensor(ScaledEpilogueLs_ScaleA, "float", b_t)
      b_args == args_from_tensor(ScaledEpilogueLs_ScaleB, "float", a_t)
      ls_args == args_from_tensor(ScaledEpilogueLs_Ls, "ElementD", ls_t)
      evt0_args == Arguments(ScaledEpilogueLs_EVTCompute0, <<b_args>>)
      evt1_args == Arguments(ScaledEpilogueLs_EVTCompute1,
                             <<a_args, evt0_args>>)
  IN  Arguments(ScaledEpilogueLs_EVTCompute, <<ls_args, evt1_args>>)

ScaledEpilogueLs_prepare_args(a_t, b_t, ls_t) ==
  LET a_args == args_from_tensor(ScaledEpilogueLs_ScaleA, "float", a_t)
      b_args == args_from_tensor(ScaledEpilogueLs_ScaleB, "float", b_t)
      ls_args == args_from_tensor(ScaledEpilogueLs_Ls, "ElementD", ls_t)
      evt0_args == Arguments(ScaledEpilogueLs_EVTCompute0, <<b_args>>)
      evt1_args == Arguments(ScaledEpilogueLs_EVTCompute1,
                             <<a_args, evt0_args>>)
  IN  Arguments(ScaledEpilogueLs_EVTCompute, <<ls_args, evt1_args>>)

\* ---- ScaledEpilogueBiasLs
ScaledEpilogueBiasLs_ScaleA == ColOrScalarLoad("float")
ScaledEpilogueBiasLs_ScaleB == RowOrScalarLoad("float")
ScaledEpilogueBiasLs_Bias == RowLoad("ElementD", FALSE)
ScaledEpilogueBiasLs_Ls == RowLoad("ElementD", FALSE)
ScaledEpilogueBiasLs_Compute0 == Sm90Compute("multiplies", "float", "float")
ScaledEpilogueBiasLs_EVTCompute0 ==
  Sm90EVT(ScaledEpilogueBiasLs_Compute0, <<ScaledEpilogueBiasLs_ScaleB, Accum>>)
\* the middle node as in ScaledEpilogueLs: a multiply that drops the bias
ScaledEpilogueBiasLs_Compute1_Multiplies ==
  Sm90Compute("multiplies", "float", "float")
ScaledEpilogueBiasLs_Compute1 == Sm90Compute("multiply_add", "float", "float")
ScaledEpilogueBiasLs_EVTCompute1 ==
  Sm90EVT(ScaledEpilogueBiasLs_Compute1,
          <<ScaledEpilogueBiasLs_ScaleA, ScaledEpilogueBiasLs_EVTCompute0,
            ScaledEpilogueBiasLs_Bias>>)
ScaledEpilogueBiasLs_Compute2 == Sm90Compute("multiplies", "ElementD", "float")
ScaledEpilogueBiasLs_EVTCompute ==
  Sm90EVT(ScaledEpilogueBiasLs_Compute2,
          <<ScaledEpilogueBiasLs_Ls, ScaledEpilogueBiasLs_EVTCompute1>>)

\* bias and multiplier arguments exchanged
ScaledEpilogueBiasLs_prepare_args_Exchanged(a_t, b_t, bias_t, ls_t) ==
  LET a_args == args_from_tensor(ScaledEpilogueBiasLs_ScaleA, "float", a_t)
      b_args == args_from_tensor(ScaledEpilogueBiasLs_ScaleB, "float", b_t)
      bias_args == args_from_tensor(ScaledEpilogueBiasLs_Bias, "ElementD",
                                    bias_t)
      ls_args == args_from_tensor(ScaledEpilogueBiasLs_Ls, "ElementD", ls_t)
      evt0_args == Arguments(ScaledEpilogueBiasLs_EVTCompute0, <<b_args>>)
      evt1_args == Arguments(ScaledEpilogueBiasLs_EVTCompute1,
                             <<a_args, evt0_args, ls_args>>)
  IN  Arguments(ScaledEpilogueBiasLs_EVTCompute, <<bias_args, evt1_args>>)

ScaledEpilogueBiasLs_prepare_args(a_t, b_t, bias_t, ls_t) ==
  LET a_args == args_from_tensor(ScaledEpilogueBiasLs_ScaleA, "float", a_t)
      b_args == args_from_tensor(ScaledEpilogueBiasLs_ScaleB, "float", b_t)
      bias_args == args_from_tensor(ScaledEpilogueBiasLs_Bias, "ElementD",
                                    bias_t)
      ls_args == args_from_tensor(ScaledEpilogueBiasLs_Ls, "ElementD", ls_t)
      evt0_args == Arguments(ScaledEpilogueBiasLs_EVTCompute0, <<b_args>>)
      evt1_args == Arguments(ScaledEpilogueBiasLs_EVTCompute1,
                             <<a_args, evt0_args, bias_args>>)
  IN  Arguments(ScaledEpilogueBiasLs_EVTCompute, <<ls_args, evt1_args>>)

Variants == {"ScaledEpilogue", "ScaledEpilogueBias", "ScaledEpilogueLs",
             "ScaledEpilogueBiasLs"}

EVTCompute(v) ==
  CASE v = "ScaledEpilogue"       -> ScaledEpilogue_EVTCompute
    [] v = "ScaledEpilogueBias"   -> ScaledEpilogueBias_EVTCompute
    [] v = "ScaledEpilogueLs"     -> ScaledEpilogueLs_EVTCompute
    [] v = "ScaledEpilogueBiasLs" -> ScaledEpilogueBiasLs_EVTCompute

\* ------------------------------------------------------------- evaluation
\* the value a lane gets from one node; ub marks a read outside any storage
Value(x) == [ub |-> FALSE, v |-> x]
Undefined == [ub |-> TRUE, v |-> 0]

Deref(memory, ptr, idx) ==
  IF ptr = NULL THEN Undefined
  ELSE IF idx \in DOMAIN memory[ptr] THEN Value(memory[ptr][idx])
  ELSE Undefined

\* scalar mode of Sm90ColOrScalarBroadcast / Sm90RowOrScalarBroadcast:
\* every lane gets the one element behind the pointer
ScalarBroadcast_get(a, memory) == Deref(memory, a.ptr, 0)

\* Sm90ColOrScalarBroadcast / Sm90RowOrScalarBroadcast: the flag set from
\* numel() != 1 selects the vector read with the descriptor's stride
OrScalarBroadcast_get(Op, a, memory, m, n) ==
  IF a.broadcast
  THEN Deref(memory, a.ptr, Op.Stride[1] * m + Op.Stride[2] * n)
  ELSE ScalarBroadcast_get(a, memory)

\* Sm90ColBroadcast / Sm90RowBroadcast: a null pointer reads as the default 0
\* only when the descriptor enables it
Broadcast_get(Op, a, memory, m, n) ==
  IF a.ptr = NULL /\ Op.EnableNullptr THEN Value(0)
  ELSE Deref(memory, a.ptr, Op.Stride[1] * m + Op.Stride[2] * n)

multiplies(x, y) == x * y
multiply_add(x, y, z) == x * y + z

\* Sm90Compute: inputs converted to ElementCompute, ComputeFn applied in
\* ElementCompute, the result converted to ElementOutput
Sm90Compute_visit(Op, in) ==
  LET c(i) == NumericConverter(Op.ElementCompute, in[i])
      r == IF Op.ComputeFn = "multiply_add"
           THEN multiply_add(c(1), c(2), c(3))
           ELSE multiplies(c(1), c(2))
  IN  NumericConverter(Op.ElementOutput,
                       NumericConverter(Op.ElementCompute, r))

RECURSIVE visit(_, _, _, _, _)
visit(Op, a, memory, m, n) ==
  IF Op.kind = "Sm90EVT"
  THEN LET c == Op.ChildOps
           in == IF Len(c) = 2
                 THEN <<visit(c[1], a[1], memory, m, n),
                        visit(c[2], a[2], memory, m, n)>>
                 ELSE <<visit(c[1], a[1], memory, m, n),
                        visit(c[2], a[2], memory, m, n),
                        visit(c[3], a[3], memory, m, n)>>
       IN  IF \E i \in DOMAIN in : in[i].ub THEN Undefined
           ELSE Value(Sm90Compute_visit(Op.NodeOp,
                                        [i \in DOMAIN in |-> in[i].v]))
  ELSE IF Op.kind = "Sm90AccFetch" THEN Value(Acc[m][n])
  ELSE IF Op.kind \in {"Sm90ColOrScalarBroadcast", "Sm90RowOrScalarBroadcast"}
       THEN OrScalarBroadcast_get(Op, a, memory, m, n)
  ELSE Broadcast_get(Op, a, memory, m, n)

\* the whole tile, one lane per output coordinate
Epilogue(v, a, memory) ==
  [m \in Rows |-> [n \in Cols |-> visit(EVTCompute(v), a, memory, m, n)]]

Defined(tile) == \A m \in Rows, n \in Cols : ~tile[m][n].ub

\* ------------------------------------------------------------------ states
HasBias(v) == v \in {"ScaledEpilogueBias", "ScaledEpilogueBiasLs"}
HasLs(v)   == v \in {"ScaledEpilogueLs", "ScaledEpilogueBiasLs"}

NoCall == [overload |-> "none"]

InitLaunch ==
  /\ variant \in Variants
  /\ ElementD \in ElementDTypes
  /\ Acc \in AccTiles
  /\ \E oa \in Operands("pa", ScaleANumels, ScaleAVals),
        ob \in Operands("pb", ScaleBNumels, ScaleBVals),
        obias \in (IF HasBias(variant)
                   THEN Operands("pbias", ChannelNumels, BiasVals)
                   ELSE {[tensor |-> NoTensor, storage |-> NoStorage]}),
        ols \in (IF HasLs(variant)
                 THEN Operands("pls", ChannelNumels, LsVals)
                 ELSE {[tensor |-> NoTensor, storage |-> NoStorage]}) :
       /\ a_scales = oa.tensor
       /\ b_scales = ob.tensor
       /\ bias = obias.tensor
       /\ ls = ols.tensor
       /\ mem = [p \in Addrs |->
                   CASE p = "pa" -> oa.storage
                     [] p = "pb" -> ob.storage
                     [] p = "pbias" -> obias.storage
                     [] p = "pls" -> ols.storage]
  /\ args = NoArgs
  /\ D = NoTile
  /\ pc = "start"
  /\ call = NoCall
  /\ result = NoArgs

\* the descriptors a call site can name
Descriptors ==
  UNION { { ColOrScalarLoad(t), RowOrScalarLoad(t), ColLoad(t, FALSE),
            ColLoad(t, TRUE), RowLoad(t, FALSE), RowLoad(t, TRUE) } :
          t \in {"float", "ElementD"} }

CallTensors == { [data_ptr |-> "pa", numel |-> k] : k \in 0 .. TileM }
                 \cup {NoTensor}

InitCall ==
  /\ variant = "ScaledEpilogue"
  /\ ElementD = "half"
  /\ Acc = IotaTile
  /\ a_scales = NoTensor /\ b_scales = NoTensor
  /\ bias = NoTensor /\ ls = NoTensor
  /\ mem = [p \in Addrs |-> NoStorage]
  /\ args = NoArgs
  /\ D = NoTile
  /\ pc = "instantiate"
  /\ \E d \in Descriptors, t \in {"float", "ElementD"} :
       \/ \E x \in CallTensors :
            call = [overload |-> "tensor", Descriptor |-> d, T |-> t,
                    tensor |-> Some(x)]
       \/ \E x \in {Some(y) : y \in CallTensors} \cup {Absent} :
            call = [overload |-> "optional", Descriptor |-> d, T |-> t,
                    tensor |-> x]
  /\ result = NoArgs

Init == InitLaunch \/ InitCall

\* ----------------------------------------------------------------- actions
PrepareArgsScaled ==
  /\ pc = "start" /\ variant = "ScaledEpilogue"
  /\ args' = ScaledEpilogue_prepare_args(a_scales, b_scales)
  /\ pc' = "prepared"
  /\ UNCHANGED <<variant, ElementD, Acc, a_scales, b_scales, bias, ls, mem, D,
                 call, result>>

PrepareArgsBias ==
  /\ pc = "start" /\ variant = "ScaledEpilogueBias"
  /\ args' = ScaledEpilogueBias_prepare_args(a_scales, b_scales, bias)
  /\ pc' = "prepared"
  /\ UNCHANGED <<variant, ElementD, Acc, a_scales, b_scales, bias, ls, mem, D,
                 call, result>>

PrepareArgsLs ==
  /\ pc = "start" /\ variant = "ScaledEpilogueLs"
  /\ args' = ScaledEpilogueLs_prepare_args(a_scales, b_scales, ls)
  /\ pc' = "prepared"
  /\ UNCHANGED <<variant, ElementD, Acc, a_scales, b_scales, bias, ls, mem, D,
                 call, result>>

PrepareArgsBiasLs ==
  /\ pc = "start" /\ variant = "ScaledEpilogueBiasLs"
  /\ args' = ScaledEpilogueBiasLs_prepare_args(a_scales, b_scales, bias, ls)
  /\ pc' = "prepared"
  /\ UNCHANGED <<variant, ElementD, Acc, a_scales, b_scales, bias, ls, mem, D,
                 call, result>>

\* the kernel runs the epilogue over the tile; every read is inside storage
Launch ==
  /\ pc = "prepared"
  /\ LET tile == Epilogue(variant, args, mem)
     IN  /\ Defined(tile)
         /\ D' = [m \in Rows |-> [n \in Cols |-> tile[m][n].v]]
  /\ pc' = "done"
  /\ UNCHANGED <<variant, ElementD, Acc, a_scales, b_scales, bias, ls, mem,
                 args, call, result>>

\* some lane reads through a null pointer or past the end of a tensor:
\* the launch faults, or those lanes store whatever was read
LaunchUndefined ==
  /\ pc = "prepared"
  /\ LET tile == Epilogue(variant, args, mem)
     IN  /\ ~Defined(tile)
         /\ \/ /\ pc' = "fault"
               /\ D' = NoTile
            \/ /\ pc' = "garbage"
               /\ \E g \in GarbageVals :
                    D' = [m \in Rows |-> [n \in Cols |->
                            IF tile[m][n].ub THEN g ELSE tile[m][n].v]]
  /\ UNCHANGED <<variant, ElementD, Acc, a_scales, b_scales, bias, ls, mem,
                 args, call, result>>

InstantiateTensor ==
  /\ pc = "instantiate" /\ call.overload = "tensor"
  /\ result' = args_from_tensor(call.Descriptor, call.T, call.tensor)
  /\ pc' = "instantiated"
  /\ UNCHANGED <<variant, ElementD, Acc, a_scales, b_scales, bias, ls, mem,
                 args, D, call>>

InstantiateOptional ==
  /\ pc = "instantiate" /\ call.overload = "optional"
  /\ result' = args_from_optional_tensor(call.Descriptor, call.T, call.tensor)
  /\ pc' = "instantiated"
  /\ UNCHANGED <<variant, ElementD, Acc, a_scales, b_scales, bias, ls, mem,
                 args, D, call>>

Next ==
  \/ PrepareArgsScaled
  \/ PrepareArgsBias
  \/ PrepareArgsLs
  \/ PrepareArgsBiasLs
  \/ Launch
  \/ LaunchUndefined
  \/ InstantiateTensor
  \/ InstantiateOptional

Spec == Init /\ [][Next]_vars

\* =================================================================== claims
Prepared == pc \in {"prepared", "done", "fault", "garbage"}

Vec2(x, y) == [i \in 0 .. 1 |-> IF i = 0 THEN x ELSE y]
Tile2(w, x, y, z) == [m \in 0 .. 1 |-> IF m = 0 THEN Vec2(w, x) ELSE Vec2(y, z)]

\* the operand arrays as the caller sees them
ScaleInBounds(t, extent) ==
  t.data_ptr # NULL /\ (t.numel = 1 \/ t.numel >= extent)
ChannelInBounds(t) == t.data_ptr # NULL /\ t.numel >= TileN
OperandsInBounds ==
  /\ ScaleInBounds(a_scales, TileM)
  /\ ScaleInBounds(b_scales, TileN)
  /\ HasBias(variant) => ChannelInBounds(bias)
  /\ HasLs(variant) => ChannelInBounds(ls)

ScaleAAt(m) ==
  IF a_scales.numel = 1 THEN mem[a_scales.data_ptr][0]
  ELSE mem[a_scales.data_ptr][m]
ScaleBAt(n) ==
  IF b_scales.numel = 1 THEN mem[b_scales.data_ptr][0]
  ELSE mem[b_scales.data_ptr][n]
BiasAt(n) == mem[bias.data_ptr][n]
LsAt(n) == mem[ls.data_ptr][n]

Scaled(m, n) == ScaleAAt(m) * (ScaleBAt(n) * Acc[m][n])

\* the unrounded value of the variant's formula at (m, n)
Exact(m, n) ==
  CASE variant = "ScaledEpilogue"       -> Scaled(m, n)
    [] variant = "ScaledEpilogueBias"   -> Scaled(m, n) + BiasAt(n)
    [] variant = "ScaledEpilogueLs"     -> LsAt(n) * Scaled(m, n)
    [] variant = "ScaledEpilogueBiasLs" -> LsAt(n) * (Scaled(m, n) + BiasAt(n))

Representable(x) == NumericConverter("ElementD", x) = x

IsExample ==
  /\ TileM = 2 /\ TileN = 2
  /\ Acc = Tile2(1, 2, 3, 4)
  /\ a_scales.numel = 2 /\ mem[a_scales.data_ptr] = Vec2(2, 3)
  /\ b_scales.numel = 2 /\ mem[b_scales.data_ptr] = Vec2(10, 100)

\* C1: in ScaledEpilogue every output element is a(m) * (b(n) * Acc[m][n])
\* in the output type, a taken per row (or the one scalar) and b per column
\* (or the one scalar); the example tile gives [[20,400],[90,1200]].
C1_ScaledOutput ==
  (pc = "done" /\ variant = "ScaledEpilogue") =>
    /\ OperandsInBounds
    /\ \A m \in Rows, n \in Cols :
         D[m][n] = NumericConverter("ElementD",
                                    ScaleAAt(m) * (ScaleBAt(n) * Acc[m][n]))
    /\ IsExample => D = Tile2(20, 400, 90, 1200)

C1_Witness ==
  /\ pc = "done" /\ variant = "ScaledEpilogue"
  /\ IsExample
  /\ D = Tile2(20, 400, 90, 1200)

\* C2: in ScaledEpilogueBiasLs every output element is
\* L[n] * (a(m) * (b(n) * Acc[m][n]) + bias[n]) in the output type; the bias is
\* inside the outer multiplication, so with bias # 0 and L # 1 the output is
\* not L[n] * (a(m) * b(n) * Acc[m][n]) + bias[n] (both held exactly by the
\* output type).
C2_BiasInsideLs ==
  (pc = "done" /\ variant = "ScaledEpilogueBiasLs") =>
    /\ OperandsInBounds
    /\ \A m \in Rows, n \in Cols :
         LET inside == LsAt(n) * (Scaled(m, n) + BiasAt(n))
             after  == LsAt(n) * Scaled(m, n) + BiasAt(n)
         IN  /\ D[m][n] = NumericConverter("ElementD", inside)
             /\ (BiasAt(n) # 0 /\ LsAt(n) # 1
                 /\ Representable(inside) /\ Representable(after))
                  => D[m][n] # after

C2_Witness ==
  /\ pc = "done" /\ variant = "ScaledEpilogueBiasLs"
  /\ \E m \in Rows, n \in Cols :
       /\ BiasAt(n) # 0 /\ LsAt(n) # 1
       /\ D[m][n] = LsAt(n) * (Scaled(m, n) + BiasAt(n))
       /\ D[m][n] # LsAt(n) * Scaled(m, n) + BiasAt(n)

\* C3: in ScaledEpilogueBias every output element is
\* a(m) * (b(n) * Acc[m][n]) + bias[n] in the output type, bias taken per
\* column; the example tile with bias [1,1] gives [[21,401],[91,1201]]
\* in an output type that holds these values.
C3_ScaledBiasOutput ==
  (pc = "done" /\ variant = "ScaledEpilogueBias") =>
    /\ OperandsInBounds
    /\ \A m \in Rows, n \in Cols :
         D[m][n] = NumericConverter("ElementD",
                     ScaleAAt(m) * (ScaleBAt(n) * Acc[m][n]) + BiasAt(n))
    /\ (IsExample /\ mem[bias.data_ptr] = Vec2(1, 1)
        /\ Representable(401) /\ Representable(1201))
         => D = Tile2(21, 401, 91, 1201)

C3_Witness ==
  /\ pc = "done" /\ variant = "ScaledEpilogueBias"
  /\ IsExample /\ mem[bias.data_ptr] = Vec2(1, 1)
  /\ D = Tile2(21, 401, 91, 1201)

\* C4: in ScaledEpilogueLs every output element is
\* L[n] * (a(m) * (b(n) * Acc[m][n])) in the output type, L taken per column;
\* the example tile with L = [2,1] gives [[40,400],[180,1200]].
C4_ScaledLsOutput ==
  (pc = "done" /\ variant = "ScaledEpilogueLs") =>
    /\ OperandsInBounds
    /\ \A m \in Rows, n \in Cols :
         D[m][n] = NumericConverter("ElementD",
                     LsAt(n) * (ScaleAAt(m) * (ScaleBAt(n) * Acc[m][n])))
    /\ (IsExample /\ mem[ls.data_ptr] = Vec2(2, 1))
         => D = Tile2(40, 400, 180, 1200)

C4_Witness ==
  /\ pc = "done" /\ variant = "ScaledEpilogueLs"
  /\ IsExample /\ mem[ls.data_ptr] = Vec2(2, 1)
  /\ D = Tile2(40, 400, 180, 1200)

\* the slots of the argument block that belong to the scale leaves
ArgScaleA == IF HasLs(variant) THEN args[2][1] ELSE args[1]
ArgScaleB == IF HasLs(variant) THEN args[2][2][1] ELSE args[2][1]

IsOrScalarCall ==
  /\ pc = "instantiated" /\ call.overload = "tensor"
  /\ call.Descriptor \in {ColOrScalarLoad(call.T), RowOrScalarLoad(call.T)}

\* C5: for the scalar-or-vector descriptors args_from_tensor sets scalar mode
\* exactly when the tensor has one element (any other count, 0 included, is
\* vector mode) and always carries the tensor's own data pointer; a
\* one-element scale is the value of every output position.
C5_ScalarModeDetection ==
  /\ IsOrScalarCall =>
       /\ result.ptr = call.tensor.data_ptr
       /\ result.broadcast = (call.tensor.numel # 1)
  /\ Prepared =>
       /\ ArgScaleA.ptr = a_scales.data_ptr
       /\ ArgScaleA.broadcast = (a_scales.numel # 1)
       /\ ArgScaleB.ptr = b_scales.data_ptr
       /\ ArgScaleB.broadcast = (b_scales.numel # 1)
  /\ (pc = "done" /\ a_scales.numel = 1) =>
       \A m \in Rows, n \in Cols :
         Scaled(m, n) = mem[a_scales.data_ptr][0] * (ScaleBAt(n) * Acc[m][n])
         /\ D[m][n] = NumericConverter("ElementD", Exact(m, n))
  /\ (pc = "done" /\ b_scales.numel = 1) =>
       \A m \in Rows, n \in Cols :
         Scaled(m, n) = ScaleAAt(m) * (mem[b_scales.data_ptr][0] * Acc[m][n])
         /\ D[m][n] = NumericConverter("ElementD", Exact(m, n))

C5_Witness ==
  /\ pc = "done" /\ TileM > 1 /\ TileN > 1
  /\ a_scales.numel = 1 /\ ~ArgScaleA.broadcast
  /\ b_scales.numel > 1 /\ ArgScaleB.broadcast
  /\ \A m \in Rows, n \in Cols :
       D[m][n] = NumericConverter("ElementD", Exact(m, n))
  /\ D[0] # D[1]

\* C6: a one-element bias or multiplier is rejected when the arguments are
\* built: no argument block is ever produced from it.
C6_ScalarChannelRejected ==
  ((HasBias(variant) /\ bias.numel = 1) \/ (HasLs(variant) /\ ls.numel = 1))
    => ~Prepared

\* what the tile becomes when one entry of a tensor's storage is rewritten
Rewritten(t, i, x) ==
  Epilogue(variant, args, [mem EXCEPT ![t.data_ptr][i] = x])

RowChanged(tile, m) == \E n \in Cols : tile[m][n].v # D[m][n]
ColChanged(tile, n) == \E m \in Rows : tile[m][n].v # D[m][n]

VectorA == pc = "done" /\ a_scales.numel # 1
VectorB == pc = "done" /\ b_scales.numel # 1

\* C7 as stated: rewriting entry i of a per-row scaleA changes output row i
\* and no other row; rewriting entry j of a per-column scaleB changes output
\* column j and no other column.
C7_ExactlyThatRow ==
  /\ VectorA =>
       \A i \in Rows : \A x \in Elems(ScaleAVals) \ {mem[a_scales.data_ptr][i]} :
         \A m \in Rows : RowChanged(Rewritten(a_scales, i, x), m) <=> (m = i)
  /\ VectorB =>
       \A j \in Cols : \A x \in Elems(ScaleBVals) \ {mem[b_scales.data_ptr][j]} :
         \A n \in Cols : ColChanged(Rewritten(b_scales, j, x), n) <=> (n = j)

\* C7 amended: rewriting entry i of a per-row scaleA changes no output row
\* other than row i, and rewriting entry j of a per-column scaleB changes no
\* output column other than column j; within row i (column j) exactly the
\* elements whose unscaled value is nonzero can change.
C7_OnlyThatRow ==
  /\ VectorA =>
       \A i \in Rows : \A x \in Elems(ScaleAVals) \ {mem[a_scales.data_ptr][i]} :
         LET tile == Rewritten(a_scales, i, x)
         IN  /\ Defined(tile)
             /\ \A m \in Rows \ {i} : ~RowChanged(tile, m)
             /\ \A n \in Cols : Acc[i][n] = 0 => tile[i][n].v = D[i][n]
  /\ VectorB =>
       \A j \in Cols : \A x \in Elems(ScaleBVals) \ {mem[b_scales.data_ptr][j]} :
         LET tile == Rewritten(b_scales, j, x)
         IN  /\ Defined(tile)
             /\ \A n \in Cols \ {j} : ~ColChanged(tile, n)
             /\ \A m \in Rows : Acc[m][j] = 0 => tile[m][j].v = D[m][j]

C7_Witness ==
  /\ VectorA /\ VectorB /\ TileM > 1 /\ TileN > 1
  /\ \E i \in Rows, x \in Elems(ScaleAVals) :
       /\ RowChanged(Rewritten(a_scales, i, x), i)
       /\ \A m \in Rows \ {i} : ~RowChanged(Rewritten(a_scales, i, x), m)
  /\ \E j \in Cols, x \in Elems(ScaleBVals) :
       /\ ColChanged(Rewritten(b_scales, j, x), j)
       /\ \A n \in Cols \ {j} : ~ColChanged(Rewritten(b_scales, j, x), n)

\* the descriptor argument each operand yields
LeafA == [ptr |-> a_scales.data_ptr, broadcast |-> (a_scales.numel # 1)]
LeafB == [ptr |-> b_scales.data_ptr, broadcast |-> (b_scales.numel # 1)]
LeafBias == [ptr |-> bias.data_ptr]
LeafLs == [ptr |-> ls.data_ptr]

RECURSIVE SameShape(_, _)
SameShape(Op, a) ==
  IF Op.kind = "Sm90EVT"
  THEN /\ DOMAIN a = 1 .. (Len(Op.ChildOps) + 1)
       /\ a[Len(Op.ChildOps) + 1] = EmptyArguments
       /\ \A i \in 1 .. Len(Op.ChildOps) : SameShape(Op.ChildOps[i], a[i])
  ELSE IF Op.kind = "Sm90AccFetch" THEN a = EmptyArguments
  ELSE "ptr" \in DOMAIN a

\* C8: the argument block has the shape of the variant's tree with every
\* operand in the slot of its own leaf: {a, {b}}, {a, {b}, bias},
\* {ls, {a, {b}}}, {ls, {a, {b}, bias}}.
C8_ArgumentBlockShape ==
  Prepared =>
    /\ SameShape(EVTCompute(variant), args)
    /\ LET E == EmptyArguments
           evt0 == <<LeafB, E, E>>
       IN  CASE variant = "ScaledEpilogue" ->
                  args = <<LeafA, evt0, E>>
             [] variant = "ScaledEpilogueBias" ->
                  args = <<LeafA, evt0, LeafBias, E>>
             [] variant = "ScaledEpilogueLs" ->
                  args = <<LeafLs, <<LeafA, evt0, E>>, E>>
             [] variant = "ScaledEpilogueBiasLs" ->
                  args = <<LeafLs, <<LeafA, evt0, LeafBias, E>>, E>>

C8_Witness ==
  /\ pc = "prepared" /\ variant = "ScaledEpilogueBiasLs"
  /\ bias.data_ptr # NULL /\ ls.data_ptr # NULL
  /\ a_scales.data_ptr # NULL /\ b_scales.data_ptr # NULL
  /\ args[1] = LeafLs /\ args[1] # LeafBias
  /\ args[2][3] = LeafBias
  /\ args[2][1] = LeafA /\ args[2][2][1] = LeafB

RECURSIVE Leaves(_)
Leaves(Op) ==
  IF Op.kind = "Sm90EVT"
  THEN UNION {Leaves(Op.ChildOps[i]) : i \in 1 .. Len(Op.ChildOps)}
  ELSE {Op}

NullEnabled(Descriptor, T) ==
  Descriptor \in {ColLoad(T, TRUE), RowLoad(T, TRUE)}

\* C9: only the optional-tensor overload takes an absent tensor, it compiles
\* only for a plain row or column descriptor with null-pointer support and
\* then yields null when absent and the data pointer when present; the
\* tensor overload does not compile for those descriptors; no variant has a
\* null-enabled leaf, and every pointer in a variant's argument block is the
\* data pointer of the tensor passed for that leaf.
C9_AbsentOperandRule ==
  /\ (pc = "instantiated" /\ call.overload = "optional") =>
       /\ (result # IllFormed) <=> NullEnabled(call.Descriptor, call.T)
       /\ result # IllFormed =>
            result = [ptr |-> IF call.tensor.has_value
                              THEN call.tensor.data_ptr ELSE NULL]
  /\ (pc = "instantiated" /\ call.overload = "tensor") =>
       /\ call.tensor.has_value
       /\ NullEnabled(call.Descriptor, call.T) => result = IllFormed
  /\ \A d \in Leaves(EVTCompute(variant)) :
       d.kind # "Sm90AccFetch" => ~d.EnableNullptr
  /\ Prepared =>
       /\ ArgScaleA.ptr = a_scales.data_ptr
       /\ ArgScaleB.ptr = b_scales.data_ptr
       /\ HasBias(variant) =>
            (IF HasLs(variant) THEN args[2][3] ELSE args[3]) = LeafBias
       /\ HasLs(variant) => args[1] = LeafLs

C9_Witness ==
  /\ pc = "instantiated" /\ call.overload = "optional"
  /\ call.Descriptor = RowLoad("ElementD", TRUE)
  /\ ~call.tensor.has_value
  /\ result = [ptr |-> NULL]

RECURSIVE ComputeNodes(_)
ComputeNodes(Op) ==
  IF Op.kind = "Sm90EVT"
  THEN {Op.NodeOp}
       \cup UNION {ComputeNodes(Op.ChildOps[i]) : i \in 1 .. Len(Op.ChildOps)}
  ELSE {}

RECURSIVE InnerEVTs(_)
InnerEVTs(Op) ==
  IF Op.kind = "Sm90EVT"
  THEN UNION { {Op.ChildOps[i]} \cup InnerEVTs(Op.ChildOps[i]) :
               i \in {j \in 1 .. Len(Op.ChildOps) :
                        Op.ChildOps[j].kind = "Sm90EVT"} }
  ELSE {}

\* C10: in every variant only the root compute node has ElementD as its
\* output type; every inner compute node outputs float, so the output is the
\* unrounded value converted once.
C10_RoundOnlyAtRoot ==
  /\ EVTCompute(variant).NodeOp.ElementOutput = "ElementD"
  /\ \A e \in InnerEVTs(EVTCompute(variant)) :
       e.NodeOp.ElementOutput = "float"
  /\ \A c \in ComputeNodes(EVTCompute(variant)) : c.ElementCompute = "float"
  /\ pc = "done" =>
       \A m \in Rows, n \in Cols :
         D[m][n] = NumericConverter("ElementD", Exact(m, n))

\* a launch where narrowing the B-scale product first would show in the output
C10_Witness ==
  /\ pc = "done" /\ InnerEVTs(EVTCompute(variant)) # {}
  /\ \E m \in Rows, n \in Cols :
       /\ D[m][n] # Exact(m, n)
       /\ ~Representable(ScaleBAt(n) * Acc[m][n])

====
